---- MODULE Spec2Model ----
(***************************************************************************)
(* A model of aisu_prime_generator.py: the deterministic Miller-Rabin      *)
(* oracle is_prime_64, the forbidden-congruence wheel (passes_forbidden,   *)
(* build_wheel), the generators candidate_stream and primes, and the       *)
(* consumer print_primes that pulls `count` primes and writes them in rows.*)
(*                                                                         *)
(* Two specifications share the module:                                    *)
(*   Spec        one run of print_primes(count, per_line, forbidden, start)*)
(*               stepped at the granularity of the generators' loops;      *)
(*   SpecOracle  one call of is_prime_64(n), stepped per witness base.     *)
(***************************************************************************)
EXTENDS Integers, Sequences, FiniteSets

VARIABLES
    args,      \* print_primes' arguments: [forbidden, start, count, per_line]
    pc,        \* position of the run: "idle", "built", "loop", "done", "error"
    err,       \* the exception that ended the run ("" when none)
    wheel,     \* primes' local `wheel`: <<>> before build_wheel, <<Wheel>> after
    q,         \* candidate_stream's block index
    i,         \* candidate_stream's position in `residues` (1-based)
    cands,     \* every value candidate_stream has yielded, in order
    emitted,   \* every value primes has yielded, in order
    line,      \* print_primes' row buffer
    rows,      \* the rows written to `out`, in order
    printed,   \* print_primes' counter
    oracle     \* the state of one is_prime_64 call (SpecOracle)

vars == <<args, pc, err, wheel, q, i, cands, emitted, line, rows, printed, oracle>>

pipeVars == <<args, pc, err, wheel, q, i, cands, emitted, line, rows, printed>>

(***************************************************************************)
(* Bounds of the model.                                                    *)
(***************************************************************************)
MaxOracleN  == 15000   \* is_prime_64 is called on every n in -MinOracleN..MaxOracleN
MinOracleN  == 6
MaxN        == 40      \* candidate_stream opens a new block only while |(q+1)*M| <= MaxN
MaxStart    == 6       \* start ranges over -MinStart..MaxStart, and FarStart
MinStart    == 3
MaxCount    == 4       \* count ranges over 0..MaxCount
MaxPerLine  == 3       \* per_line ranges over 1..MaxPerLine
CheckRange  == 40      \* the wheel invariant is checked for n in -CheckRange..CheckRange

(***************************************************************************)
(* Python's integer arithmetic.  TLC's \div is floor division, as Python's *)
(* //; Python's % takes the sign of the divisor.                           *)
(***************************************************************************)
PyFloorDiv(a, b) == a \div b

PyMod(a, b) == IF b > 0 THEN a % b ELSE a - b * (a \div b)

Some(x) == <<x>>

None == <<>>

(***************************************************************************)
(* is_prime_64                                                             *)
(***************************************************************************)
\* variant: the small-prime list without 5
SmallWithoutFive == <<2, 3, 7, 11, 13, 17, 19, 23, 29, 31, 37>>

small == <<2, 3, 5, 7, 11, 13, 17, 19, 23, 29, 31, 37>>

bases == <<2, 325, 9375, 28178, 450775, 9780504, 1795265022>>

\* for p in small: n == p -> True, n % p == 0 -> False; "undecided" falls through
RECURSIVE SmallLoop(_, _)
SmallLoop(n, k) ==
    IF k > Len(small) THEN "undecided"
    ELSE IF n = small[k] THEN "prime"
    ELSE IF n % small[k] = 0 THEN "composite"
    ELSE SmallLoop(n, k + 1)

\* while d % 2 == 0: d //= 2; s += 1   -- the pair <<d, s>> the loop ends with
RECURSIVE Decompose(_, _)
Decompose(d, s) ==
    IF d % 2 = 0 THEN Decompose(d \div 2, s + 1) ELSE <<d, s>>

\* pow(a, d, n): a^d mod n by square and multiply
RECURSIVE ModPow(_, _, _)
ModPow(a, d, n) ==
    IF d = 0 THEN 1 % n
    ELSE LET h == ModPow(a, d \div 2, n)
             sq == (h * h) % n
         IN  IF d % 2 = 0 THEN sq ELSE (sq * a) % n

\* for _ in range(k): x = x*x % n; if x == n-1: break / else: return False
\* TRUE when the loop breaks, FALSE when it is exhausted
RECURSIVE SquareLoop(_, _, _)
SquareLoop(x, k, n) ==
    IF k <= 0 THEN FALSE
    ELSE LET y == (x * x) % n
         IN  IF y = n - 1 THEN TRUE ELSE SquareLoop(y, k - 1, n)

\* variant: the test `x == n - 1` before the squaring loop is left out
WitnessOutcomeNoMinusOne(a0, n) ==
    LET ds == Decompose(n - 1, 0)
        d  == ds[1]
        s  == ds[2]
        a  == a0 % n
    IN  IF a = 0 THEN "skip"
        ELSE LET x == ModPow(a, d, n)
             IN  IF x = 1 THEN "pass"
                 ELSE IF SquareLoop(x, s - 1, n) THEN "pass" ELSE "fail"

\* one iteration of `for a in bases`: "skip" (a % n == 0), "pass" or "fail"
WitnessOutcome(a0, n) ==
    LET ds == Decompose(n - 1, 0)
        d  == ds[1]
        s  == ds[2]
        a  == a0 % n
    IN  IF a = 0 THEN "skip"
        ELSE LET x == ModPow(a, d, n)
             IN  IF x = 1 \/ x = n - 1 THEN "pass"
                 ELSE IF SquareLoop(x, s - 1, n) THEN "pass" ELSE "fail"

RECURSIVE WitnessLoop(_, _)
WitnessLoop(n, k) ==
    IF k > Len(bases) THEN TRUE
    ELSE IF WitnessOutcome(bases[k], n) = "fail" THEN FALSE
    ELSE WitnessLoop(n, k + 1)

is_prime_64(n) ==
    IF n < 2 THEN FALSE
    ELSE LET c == SmallLoop(n, 1)
         IN  IF c = "prime" THEN TRUE
             ELSE IF c = "composite" THEN FALSE
             ELSE WitnessLoop(n, 1)

(***************************************************************************)
(* One call of is_prime_64, stepped: the trial division, then one step per *)
(* witness base.  `tested` and `skipped` record what the loop did with     *)
(* each base.                                                              *)
(***************************************************************************)
OracleIdle(n) ==
    [n |-> n, pc |-> "call", k |-> 1, tested |-> {}, skipped |-> {}, result |-> FALSE]

OracleInputs == (0 - MinOracleN) .. MaxOracleN

\* lines 11-25: n < 2, the small primes, and n - 1 = d * 2^s
OracleTrial ==
    /\ oracle.pc = "call"
    /\ LET n == oracle.n
           c == IF n < 2 THEN "composite" ELSE SmallLoop(n, 1)
       IN  oracle' = IF c = "undecided"
                     THEN [oracle EXCEPT !.pc = "witness"]
                     ELSE [oracle EXCEPT !.pc = "ret", !.result = (c = "prime")]
    /\ UNCHANGED pipeVars

\* lines 28-40: one iteration of the loop over the bases
OracleWitness ==
    /\ oracle.pc = "witness"
    /\ oracle.k <= Len(bases)
    /\ LET a == bases[oracle.k]
           o == WitnessOutcome(a, oracle.n)
       IN  oracle' =
             IF o = "skip"
             THEN [oracle EXCEPT !.k = @ + 1, !.skipped = @ \cup {a}]
             ELSE IF o = "pass"
             THEN [oracle EXCEPT !.k = @ + 1, !.tested = @ \cup {a}]
             ELSE [oracle EXCEPT !.pc = "ret", !.result = FALSE,
                                 !.tested = @ \cup {a}]
    /\ UNCHANGED pipeVars

\* line 41: every base passed or was skipped
OracleReturn ==
    /\ oracle.pc = "witness"
    /\ oracle.k > Len(bases)
    /\ oracle' = [oracle EXCEPT !.pc = "ret", !.result = TRUE]
    /\ UNCHANGED pipeVars

PipeIdle ==
    /\ args = [forbidden |-> None, start |-> 2, count |-> 0, per_line |-> 1]
    /\ pc = "idle"
    /\ err = ""
    /\ wheel = <<>>
    /\ q = 0
    /\ i = 1
    /\ cands = <<>>
    /\ emitted = <<>>
    /\ line = <<>>
    /\ rows = <<>>
    /\ printed = 0

InitOracle ==
    /\ \E n \in OracleInputs : oracle = OracleIdle(n)
    /\ PipeIdle

NextOracle == OracleTrial \/ OracleWitness \/ OracleReturn

SpecOracle == InitOracle /\ [][NextOracle]_vars

(***************************************************************************)
(* passes_forbidden and build_wheel                                        *)
(***************************************************************************)
DefaultForbidden == << <<2, 0>>, <<3, 0>>, <<5, 0>>, <<7, 0>>, <<11, 0>>, <<13, 0>> >>

\* for m, r in forbidden: if n % m == r: return False / return True
RECURSIVE PassesFrom(_, _, _)
PassesFrom(n, forbidden, k) ==
    IF k > Len(forbidden) THEN TRUE
    ELSE IF PyMod(n, forbidden[k][1]) = forbidden[k][2] THEN FALSE
    ELSE PassesFrom(n, forbidden, k + 1)

passes_forbidden(n, forbidden) == PassesFrom(n, forbidden, 1)

\* n % m raises ZeroDivisionError: a rule with m == 0 is reached before any rule matches
PassesRaises(n, forbidden) ==
    \E k \in 1..Len(forbidden) :
        /\ forbidden[k][1] = 0
        /\ \A j \in 1..(k - 1) : PyMod(n, forbidden[j][1]) # forbidden[j][2]

\* variant: every modulus is multiplied in, repeats included
RECURSIVE WheelModulusNoDedup(_, _, _, _)
WheelModulusNoDedup(forbidden, k, mods, M) ==
    IF k > Len(forbidden) THEN M
    ELSE WheelModulusNoDedup(forbidden, k + 1, mods, M * forbidden[k][1])

\* for m, _ in forbidden: if m not in mods: mods.append(m); M *= m
RECURSIVE WheelModulus(_, _, _, _)
WheelModulus(forbidden, k, mods, M) ==
    IF k > Len(forbidden) THEN M
    ELSE LET m == forbidden[k][1]
         IN  IF m \in mods
             THEN WheelModulus(forbidden, k + 1, mods, M)
             ELSE WheelModulus(forbidden, k + 1, mods \cup {m}, M * m)

\* range(M): empty when M <= 0
PyRange(M) == [k \in 1..M |-> k - 1]

\* variant: the residues are filtered by the first rule of each modulus only
FirstOfEachModulus(forbidden) ==
    SelectSeq(forbidden,
              LAMBDA rule : rule = forbidden[CHOOSE k \in 1..Len(forbidden) :
                                       /\ forbidden[k][1] = rule[1]
                                       /\ \A j \in 1..(k - 1) : forbidden[j][1] # rule[1]])

WheelFilteredBy(forbidden, checked) ==
    LET M == WheelModulus(forbidden, 1, {}, 1)
    IN  [M         |-> M,
         residues  |-> SelectSeq(PyRange(M), LAMBDA r : passes_forbidden(r, checked)),
         forbidden |-> forbidden]

build_wheel_first_rules_only(forbidden) ==
    WheelFilteredBy(forbidden, FirstOfEachModulus(forbidden))

build_wheel(forbidden) ==
    LET M == WheelModulus(forbidden, 1, {}, 1)
    IN  [M         |-> M,
         residues  |-> SelectSeq(PyRange(M), LAMBDA r : passes_forbidden(r, forbidden)),
         forbidden |-> forbidden]

\* build_wheel ends in ZeroDivisionError: some r in range(M) reaches a rule with m == 0
BuildRaises(forbidden) ==
    LET M == WheelModulus(forbidden, 1, {}, 1)
    IN  \E r \in 0..(M - 1) : PassesRaises(r, forbidden)

(***************************************************************************)
(* print_primes' row buffer                                                *)
(***************************************************************************)
\* variant: the row is written when it holds more than per_line values
PrintTakeStrict(ln, rws, p, per_line) ==
    LET l2 == Append(ln, p)
    IN  IF Len(l2) > per_line
        THEN [line |-> <<>>, rows |-> Append(rws, l2)]
        ELSE [line |-> l2, rows |-> rws]

\* line.append(p); if len(line) >= per_line: out.write(...); line.clear()
PrintTake(ln, rws, p, per_line) ==
    LET l2 == Append(ln, p)
    IN  IF Len(l2) >= per_line
        THEN [line |-> <<>>, rows |-> Append(rws, l2)]
        ELSE [line |-> l2, rows |-> rws]

\* if line: out.write(...)
PrintFlush(ln, rws) == IF ln # <<>> THEN Append(rws, ln) ELSE rws

(***************************************************************************)
(* The inputs of a run.                                                    *)
(***************************************************************************)
FarStart == 100

Starts == ((0 - MinStart) .. MaxStart) \cup {FarStart}

RuleSets ==
    { <<>>,
      << <<2, 0>> >>,
      << <<2, 0>>, <<3, 0>> >>,
      << <<2, 0>>, <<3, 0>>, <<5, 0>> >>,
      << <<2, 0>>, <<2, 1>> >>,
      << <<3, 1>>, <<3, 2>>, <<2, 0>> >>,
      << <<4, 1>>, <<6, 2>> >>,
      << <<6, 5>>, <<4, 3>>, <<6, 1>> >>,
      << <<2, 5>> >>,
      << <<3, 0 - 1>>, <<2, 0>> >>,
      << <<1, 0>> >>,
      << <<0, 0>> >>,
      << <<2, 0>>, <<0, 0>> >>,
      << <<0 - 2, 0>> >>,
      << <<0 - 2, 0>>, <<0 - 3, 0 - 1>> >> }

\* the default rules are run from start >= 0 only: a negative start walks the
\* 5760 residues of block -1 before the first candidate
Inputs ==
    { a \in [forbidden : {None} \cup {Some(f) : f \in RuleSets},
             start     : Starts,
             count     : 0..MaxCount,
             per_line  : 1..MaxPerLine] :
        a.forbidden = None => a.start >= 0 }

\* primes, lines 94-95
Rules == IF args.forbidden = None THEN DefaultForbidden ELSE args.forbidden[1]

W == wheel[1]

Abs(x) == IF x < 0 THEN 0 - x ELSE x

(***************************************************************************)
(* print_primes -> primes -> candidate_stream                              *)
(***************************************************************************)
Init ==
    /\ args \in Inputs
    /\ pc = "idle"
    /\ err = ""
    /\ wheel = <<>>
    /\ q = 0
    /\ i = 1
    /\ cands = <<>>
    /\ emitted = <<>>
    /\ line = <<>>
    /\ rows = <<>>
    /\ printed = 0
    /\ oracle = OracleIdle(2)

\* the first next(gen): primes runs to build_wheel (lines 94-96)
PrimesStart ==
    /\ pc = "idle"
    /\ printed < args.count
    /\ IF BuildRaises(Rules)
       THEN /\ pc' = "error"
            /\ err' = "ZeroDivisionError"
            /\ wheel' = wheel
       ELSE /\ pc' = "built"
            /\ err' = err
            /\ wheel' = Some(build_wheel(Rules))
    /\ UNCHANGED <<args, q, i, cands, emitted, line, rows, printed, oracle>>

\* variant: q starts one block late (start // M + 1)
StreamStartNextBlock ==
    /\ pc = "built"
    /\ IF W.M = 0
       THEN /\ pc' = "error"
            /\ err' = "ZeroDivisionError"
            /\ q' = q
       ELSE /\ pc' = "loop"
            /\ err' = err
            /\ q' = PyFloorDiv(args.start, W.M) + 1
    /\ i' = 1
    /\ UNCHANGED <<args, wheel, cands, emitted, line, rows, printed, oracle>>

\* candidate_stream, lines 79-80: q = start // M
StreamStart ==
    /\ pc = "built"
    /\ IF W.M = 0
       THEN /\ pc' = "error"
            /\ err' = "ZeroDivisionError"
            /\ q' = q
       ELSE /\ pc' = "loop"
            /\ err' = err
            /\ q' = PyFloorDiv(args.start, W.M)
    /\ i' = 1
    /\ UNCHANGED <<args, wheel, cands, emitted, line, rows, printed, oracle>>

\* lines 83-85 with n < start: nothing is yielded
StreamSkip ==
    /\ pc = "loop"
    /\ printed < args.count
    /\ i <= Len(W.residues)
    /\ q * W.M + W.residues[i] < args.start
    /\ i' = i + 1
    /\ UNCHANGED <<args, pc, err, wheel, q, cands, emitted, line, rows, printed, oracle>>

\* variant: primes yields every candidate that passes the rules, prime or not
StreamYieldNoOracle ==
    /\ pc = "loop"
    /\ printed < args.count
    /\ i <= Len(W.residues)
    /\ LET n == q * W.M + W.residues[i]
       IN  /\ n >= args.start
           /\ cands' = Append(cands, n)
           /\ IF passes_forbidden(n, W.forbidden)
              THEN LET t == PrintTake(line, rows, n, args.per_line)
                   IN  /\ emitted' = Append(emitted, n)
                       /\ printed' = printed + 1
                       /\ line' = t.line
                       /\ rows' = t.rows
              ELSE UNCHANGED <<emitted, printed, line, rows>>
    /\ i' = i + 1
    /\ UNCHANGED <<args, pc, err, wheel, q, oracle>>

\* lines 83-86 with n >= start: candidate_stream yields n; primes filters it
\* (lines 98-101) and, when it yields, print_primes takes it (lines 119-124)
StreamYield ==
    /\ pc = "loop"
    /\ printed < args.count
    /\ i <= Len(W.residues)
    /\ LET n == q * W.M + W.residues[i]
       IN  /\ n >= args.start
           /\ cands' = Append(cands, n)
           /\ IF passes_forbidden(n, W.forbidden) /\ is_prime_64(n)
              THEN LET t == PrintTake(line, rows, n, args.per_line)
                   IN  /\ emitted' = Append(emitted, n)
                       /\ printed' = printed + 1
                       /\ line' = t.line
                       /\ rows' = t.rows
              ELSE UNCHANGED <<emitted, printed, line, rows>>
    /\ i' = i + 1
    /\ UNCHANGED <<args, pc, err, wheel, q, oracle>>

\* line 87: the residues are exhausted, q += 1 (the model stops opening blocks
\* beyond MaxN; the code goes on without bound)
StreamNextBlock ==
    /\ pc = "loop"
    /\ printed < args.count
    /\ i > Len(W.residues)
    /\ Abs((q + 1) * W.M) <= MaxN
    /\ q' = q + 1
    /\ i' = 1
    /\ UNCHANGED <<args, pc, err, wheel, cands, emitted, line, rows, printed, oracle>>

\* line 118 false: the remainder row is written (lines 125-126), out is closed
PrintFinish ==
    /\ pc \in {"idle", "loop"}
    /\ printed >= args.count
    /\ rows' = PrintFlush(line, rows)
    /\ pc' = "done"
    /\ UNCHANGED <<args, err, wheel, q, i, cands, emitted, line, printed, oracle>>

Next ==
    \/ PrimesStart
    \/ StreamStart
    \/ StreamSkip
    \/ StreamYield
    \/ StreamNextBlock
    \/ PrintFinish

Spec == Init /\ [][Next]_vars

(***************************************************************************)
(* Vocabulary of the properties.                                           *)
(***************************************************************************)
Range(sq) == {sq[k] : k \in 1..Len(sq)}

StrictlyIncreasing(sq) == \A k \in 1..(Len(sq) - 1) : sq[k] < sq[k + 1]

\* a rule set as the data model defines it: modulus >= 2, residue in [0, modulus)
WellFormed(forbidden) ==
    \A k \in 1..Len(forbidden) :
        /\ forbidden[k][1] >= 2
        /\ forbidden[k][2] >= 0
        /\ forbidden[k][2] < forbidden[k][1]

\* some k with k*k >= MaxOracleN: trial division needs no divisor beyond it
RootBound == CHOOSE k \in 1..(MaxOracleN + 1) : k * k >= MaxOracleN + 1

\* the reference definition of primality: trial division up to the square root
IsPrimeRef(n) ==
    /\ n >= 2
    /\ \A d \in 2..(IF n < RootBound THEN n ELSE RootBound) : d * d <= n => n % d # 0

\* the values is_prime_64 accepts, tabulated once over the range a run can reach
OracleTableMax == 200

OracleTable == {n \in (0 - OracleTableMax)..OracleTableMax : is_prime_64(n)}

OracleAccepts(n) ==
    IF Abs(n) <= OracleTableMax THEN n \in OracleTable ELSE is_prime_64(n)

\* candidate_stream's cursor: every n < Pos has been decided, none >= Pos has
Pos == q * W.M + (IF i <= Len(W.residues) THEN W.residues[i] ELSE W.M)

Streaming == pc \in {"loop", "done"} /\ wheel # <<>>

RECURSIVE SetProduct(_)
SetProduct(S) ==
    IF S = {} THEN 1
    ELSE LET x == CHOOSE y \in S : TRUE IN x * SetProduct(S \ {x})

RECURSIVE Flatten(_)
Flatten(rws) ==
    IF rws = <<>> THEN <<>> ELSE Head(rws) \o Flatten(Tail(rws))

FirstTenPrimes == <<2, 3, 5, 7, 11, 13, 17, 19, 23, 29>>

(***************************************************************************)
(* C1  With the rule set omitted, primes() emits exactly the primes        *)
(* >= start (>= 2 when start < 2) in ascending order; from start = 2 the   *)
(* first ten values are 2, 3, 5, 7, 11, 13, 17, 19, 23, 29.                *)
(* Stated on every prefix: what has been emitted when the cursor is at Pos *)
(* is the set of primes in [max(start, 2), Pos).                           *)
(***************************************************************************)
C1_DefaultEmitsAllPrimes ==
    (Streaming /\ args.forbidden = None) =>
        /\ StrictlyIncreasing(emitted)
        /\ Range(emitted) =
             {n \in (IF args.start < 2 THEN 2 ELSE args.start)..(Pos - 1) : IsPrimeRef(n)}
        /\ args.start = 2 =>
             \A k \in 1..Len(emitted) : k <= 10 => emitted[k] = FirstTenPrimes[k]

(***************************************************************************)
(* C2  For a well-formed rule set and any start, primes(rules, start)      *)
(* emits, strictly ascending and without duplicates, exactly the n >= start*)
(* with is_prime_64(n) and passes_forbidden(n, rules): with [(2,0)] the    *)
(* first value is 3, with the default rules and start = 100 it is 101.     *)
(***************************************************************************)
C2_PrimesExactlyFiltered ==
    (Streaming /\ WellFormed(Rules)) =>
        /\ StrictlyIncreasing(emitted)
        /\ Range(emitted) =
             {n \in args.start..(Pos - 1) :
                 OracleAccepts(n) /\ passes_forbidden(n, Rules)}
        /\ (args.forbidden = Some(<< <<2, 0>> >>) /\ args.start <= 3 /\ emitted # <<>>)
              => emitted[1] = 3
        /\ (args.forbidden = None /\ args.start = FarStart /\ emitted # <<>>)
              => emitted[1] = 101

C2_Witness ==
    /\ pc = "done"
    /\ args.forbidden = Some(<< <<2, 0>> >>)
    /\ args.start = 2
    /\ emitted = <<3, 5, 7>>

(***************************************************************************)
(* C3  For every well-formed rule set (repeated and non-coprime moduli     *)
(* included) and every integer n, also outside [0, M): n mod wheel.M is in *)
(* wheel.residues iff passes_forbidden(n, rules).                          *)
(***************************************************************************)
C3_WheelEquivalentToRules ==
    (wheel # <<>> /\ WellFormed(Rules)) =>
        LET ResidueSet == Range(W.residues)
        IN  \A n \in (0 - CheckRange)..CheckRange :
                (PyMod(n, W.M) \in ResidueSet) <=> passes_forbidden(n, Rules)

C3_Witness ==
    /\ wheel # <<>>
    /\ Rules = << <<3, 1>>, <<3, 2>>, <<2, 0>> >>
    /\ W.M = 6
    /\ W.residues = <<3>>

(***************************************************************************)
(* C4  candidate_stream(wheel, start) yields a strictly increasing sequence*)
(* holding exactly the n >= start with n mod M in residues: nothing below  *)
(* start, nothing skipped (the first block included), nothing twice.       *)
(* Stated on every prefix, for every wheel build_wheel returns: with       *)
(* M > 0 the values yielded when the cursor is at Pos are the qualifying n *)
(* in [start, Pos); a wheel with M < 0 has no residues and yields nothing. *)
(***************************************************************************)
C4_CandidatesExact ==
    Streaming =>
        LET ResidueSet == Range(W.residues)
        IN  /\ StrictlyIncreasing(cands)
            /\ W.M > 0 =>
                  Range(cands) =
                    {n \in args.start..(Pos - 1) : PyMod(n, W.M) \in ResidueSet}
            /\ W.M < 0 => (W.residues = <<>> /\ cands = <<>>)

C4_Witness ==
    /\ Streaming
    /\ Rules = << <<2, 0>>, <<3, 0>> >>
    /\ args.start = 5
    /\ cands = <<5, 7, 11, 13>>

(***************************************************************************)
(* C5  A malformed rule (modulus < 2, or residue outside [0, modulus))     *)
(* makes wheel construction fail with InvalidRule: no Wheel is returned    *)
(* for such a rule set and the run goes no further.                        *)
(***************************************************************************)
C5_MalformedRuleRejected ==
    ~WellFormed(Rules) =>
        /\ wheel = <<>>
        /\ pc \in {"idle", "done", "error"}
        /\ pc = "error" => err = "InvalidRule"

(***************************************************************************)
(* C6  For every n of the range, negative n, 0 and 1 included, is_prime_64 *)
(* returns what the reference definition says: n >= 2 and no d with        *)
(* 2 <= d, d*d <= n divides n.  n < 2 is not prime.                        *)
(***************************************************************************)
C6_OracleAgreesWithTrialDivision ==
    oracle.pc = "ret" =>
        /\ oracle.result = IsPrimeRef(oracle.n)
        /\ is_prime_64(oracle.n) = oracle.result
        /\ oracle.n < 2 => ~oracle.result

C6_Witness ==
    /\ oracle.pc = "ret"
    /\ oracle.n = 41 * 43
    /\ oracle.tested # {}
    /\ ~oracle.result

(***************************************************************************)
(* C7  For a wheel built from a well-formed rule set every request for the *)
(* next candidate returns after finitely many steps: the stream is never   *)
(* in a state from which q is incremented forever.  The loop of            *)
(* candidate_stream returns exactly when some residue gives a value        *)
(* >= start in the rest of the current block or in the next block (every   *)
(* later block repeats the next one, shifted by M).                        *)
(***************************************************************************)
C7_NextCandidateExists ==
    (pc = "loop" /\ WellFormed(Rules)) =>
        \E k \in 1..Len(W.residues) :
            \/ k >= i /\ q * W.M + W.residues[k] >= args.start
            \/ (q + 1) * W.M + W.residues[k] >= args.start

(***************************************************************************)
(* C8  build_wheel(rules).M is the product of the distinct moduli, each    *)
(* counted once; residues is the ascending duplicate-free list of the r in *)
(* [0, M) that pass every rule, repeats of a modulus included; the empty   *)
(* rule set gives M = 1 and residues = (0).  Checked on the wheel          *)
(* build_wheel has just returned, for rule sets without a zero modulus.    *)
(***************************************************************************)
C8_WheelShape ==
    (pc = "built" /\ \A k \in 1..Len(Rules) : Rules[k][1] # 0) =>
        /\ W.M = SetProduct({Rules[k][1] : k \in 1..Len(Rules)})
        /\ StrictlyIncreasing(W.residues)
        /\ Range(W.residues) =
             {r \in 0..(W.M - 1) :
                 \A k \in 1..Len(Rules) : PyMod(r, Rules[k][1]) # Rules[k][2]}
        /\ W.forbidden = Rules
        /\ Rules = <<>> => (W.M = 1 /\ W.residues = <<0>>)

C8_Witness ==
    /\ pc = "built"
    /\ Rules = << <<6, 5>>, <<4, 3>>, <<6, 1>> >>
    /\ W.M = 24
    /\ Len(W.residues) = 14

C10_RowsComplete ==
    /\ printed = Len(emitted)
    /\ printed <= args.count
    /\ \A k \in 1..Len(rows) :
          \/ Len(rows[k]) = args.per_line
          \/ /\ pc = "done"
             /\ k = Len(rows)
             /\ Len(rows[k]) \in 1..(args.per_line - 1)
    /\ pc # "done" =>
          /\ Len(line) < args.per_line
          /\ Flatten(rows) \o line = emitted
    /\ pc = "done" =>
          /\ printed = args.count
          /\ Flatten(rows) = emitted

C10_Witness ==
    /\ pc = "done"
    /\ args.count = 4
    /\ args.per_line = 3
    /\ Len(rows) = 2
    /\ Len(rows[1]) = 3
    /\ Len(rows[2]) = 1

====
